---- MODULE Spec2Model ----
(***************************************************************************)
(* qudy: the control class (src/qudy/control.py) and the detuning error    *)
(* model (src/qudy/error_models/detuning.py).                              *)
(*                                                                         *)
(* Numbers.  Sample times and query times are integers; the sample times   *)
(* given to the constructor are even, so that a query time can fall        *)
(* strictly between two samples.  Control amplitudes are integers          *)
(* counted in tenths, so that the default detuning 0.1 is the integer 1.   *)
(* A linearly interpolated amplitude is an exact fraction <<num, den>> in  *)
(* lowest terms, and an arc length is an exact sum of square roots.        *)
(* The float -0.0, which negation makes of 0.0, is the entry NegZero: it   *)
(* counts as 0 in every sum and comparison and differs from 0.0 in the     *)
(* text that is written for it.                                            *)
(*                                                                         *)
(* Storage.  mem maps the identity of every numpy array that is alive to   *)
(* its contents, a sequence of rows.  An ndarray object is a view          *)
(* [arr, off, ncols, ndim]: the columns off+1 .. off+ncols of mem[arr].    *)
(* Two views with the same arr share storage.                              *)
(***************************************************************************)
EXTENDS Integers, Sequences, FiniteSets, TLC

VARIABLES
    mem,     \* array identity -> contents (a sequence of rows)
    objs,    \* the control instances alive: "w" (built) and "r" (returned)
    last,    \* the call made last, what it was given and what came of it
    files    \* extension -> contents of the file save() wrote under it

vars == <<mem, objs, last, files>>

\* Largest number of samples of a time vector handed to the constructor.
MaxN == 3
\* The sample times handed to the constructor are 0, 2, 6, ..., MaxT * (MaxT + 1).
MaxT == 2
\* Largest number of component arguments handed to the constructor.
MaxK == 3
None == "None"

-----------------------------------------------------------------------------
(* Arithmetic helpers *)

\* Floats: an array entry is an integer or NegZero, the float -0.0.
NegZero == -1000

\* The number an entry stands for, and the entry -x.
Num(x) == IF x = NegZero THEN 0 ELSE x

Neg(x) == IF x = NegZero THEN 0 ELSE IF x = 0 THEN NegZero ELSE -x

Abs(x) == IF x < 0 THEN -x ELSE x

SetMax(S) == CHOOSE x \in S : \A y \in S : y <= x

SetMin(S) == CHOOSE x \in S : \A y \in S : x <= y

RECURSIVE Gcd(_, _)
Gcd(a, b) == IF b = 0 THEN a ELSE Gcd(b, a % b)

\* The fraction num/den (den # 0) in lowest terms with a positive denominator.
Frac(num, den) ==
    LET s == IF den < 0 THEN -1 ELSE 1
        g == Gcd(Abs(num), Abs(den))
    IN  <<(s * num) \div g, (s * den) \div g>>

RECURSIVE SeqSum(_)
SeqSum(s) == IF s = <<>> THEN 0 ELSE Head(s) + SeqSum(Tail(s))

-----------------------------------------------------------------------------
(* numpy arrays *)

\* The contents of the ndarray object a: the rows of its columns.
Get(m, a) ==
    [i \in 1..Len(m[a.arr]) |-> SubSeq(m[a.arr][i], a.off + 1, a.off + a.ncols)]

\* ndarray.flatten(): all elements, row by row.
RECURSIVE Flatten(_)
Flatten(rows) == IF rows = <<>> THEN <<>> ELSE Head(rows) \o Flatten(Tail(rows))

\* A flat sequence as a column: shape (len, 1).
Column(s) == [i \in 1..Len(s) |-> <<s[i]>>]

\* numpy.hstack((A, B)) of two arrays with the same number of rows.
HStack(A, B) == [i \in 1..Len(A) |-> A[i] \o B[i]]

\* numpy.flipud(A): the rows in reverse order.
FlipUD(A) == [i \in 1..Len(A) |-> A[Len(A) + 1 - i]]

\* A new array identity, and the view of a whole array.
NewId(m) == Cardinality(DOMAIN m) + 1

Whole(id, ncols, ndim) == [arr |-> id, off |-> 0, ncols |-> ncols, ndim |-> ndim]

NoView == [arr |-> 0, off |-> 0, ncols |-> 0, ndim |-> 0]

\* numpy.diff(A) with its default axis, the last one: within each row.
Diff(A) == [i \in 1..Len(A) |-> [j \in 1..(Len(A[i]) - 1) |-> A[i][j + 1] - A[i][j]]]

\* numpy.all(A > 0).
AllPositive(A) == \A i \in 1..Len(A) : \A j \in 1..Len(A[i]) : A[i][j] > 0

-----------------------------------------------------------------------------
(* Constructor arguments *)

\* A positional argument: an ndarray (a view of mem), a one-parameter
\* function, or an object that is neither (a number, a string).
ArrayArg(a) == [kind |-> "ndarray", a |-> a, f |-> None]

FunctionArg(f) == [kind |-> "function", a |-> NoView, f |-> f]

ObjectArg == [kind |-> "object", a |-> NoView, f |-> None]

\* The one-parameter functions handed to the constructor, in tenths:
\* "ramp" is u(t) = t / 10 and "zero" is u(t) = 0.
Apply(f, t) == IF f = "ramp" THEN t ELSE 0

\* array( map( arg, self.times ) ) with shape (len(self.times), 1).
Sampled(f, times) == [i \in 1..Len(times) |-> <<Apply(f, times[i][1])>>]

NoKw == [interpolation |-> None, verbose |-> None]

valid_inputs == {"latest", "nearest", "linear"}

NoObj ==
    [control |-> NoView, times |-> NoView, number_controls |-> 0,
     interpolation |-> None, verbose |-> FALSE]

Raise(error, m) == [status |-> error, m |-> m, obj |-> NoObj]

-----------------------------------------------------------------------------
(* control.__init__ *)

\* The loop taking the component arguments from the first one to the last:
\* C16 tells it from Assemble.
RECURSIVE Assemble_Forward(_, _, _, _, _)
Assemble_Forward(m, args, index, times, ARR) ==
    IF index > Len(args) - 2
    THEN [status |-> "ok", ARR |-> ARR]
    ELSE LET arg == args[index + 1] IN
         IF arg.kind = "function"
         THEN Assemble_Forward(m, args, index + 1, times, HStack(Sampled(arg.f, times), ARR))
         ELSE IF arg.kind = "ndarray"
         THEN LET arr == Get(m, arg.a) IN
              IF Len(arr) = Len(times)
              THEN Assemble_Forward(m, args, index + 1, times, HStack(arr, ARR))
              ELSE [status |-> "ValueError", ARR |-> ARR]
         ELSE [status |-> "TypeError", ARR |-> ARR]

\* The loop over the component arguments, from the last one to the first.
RECURSIVE Assemble(_, _, _, _, _)
Assemble(m, args, index, times, ARR) ==
    IF index > Len(args) - 2
    THEN [status |-> "ok", ARR |-> ARR]
    ELSE LET arg == args[Len(args) - 1 - index] IN
         IF arg.kind = "function"
         THEN Assemble(m, args, index + 1, times, HStack(Sampled(arg.f, times), ARR))
         ELSE IF arg.kind = "ndarray"
         THEN LET arr == Get(m, arg.a) IN
              IF Len(arr) = Len(times)
              THEN Assemble(m, args, index + 1, times, HStack(arr, ARR))
              ELSE [status |-> "ValueError", ARR |-> ARR]
         ELSE [status |-> "TypeError", ARR |-> ARR]

\* The sanity check on the shaped time array: all( diff( self.times ) > 0 ).
TimeOrdered(times) == AllPositive(Diff(times))

\* Keywords refusing an interpolation it does not know: C13 tells it from
\* Keywords.
Keywords_Strict(m, kw, control, times, number_controls) ==
    LET interpolation ==
            IF kw.interpolation # None /\ kw.interpolation \in valid_inputs
            THEN kw.interpolation
            ELSE "latest"
    IN  IF kw.interpolation # None /\ kw.interpolation \notin valid_inputs
        THEN Raise("ValueError", m)
        ELSE IF kw.verbose \notin {None, "True", "False"}
        THEN Raise("TypeError", m)
        ELSE [status |-> "ok", m |-> m,
              obj |-> [control |-> control, times |-> times,
                       number_controls |-> number_controls,
                       interpolation |-> interpolation,
                       verbose |-> (kw.verbose = "True")]]

\* The keyword arguments, parsed after the sanity check.
Keywords(m, kw, control, times, number_controls) ==
    LET interpolation ==
            IF kw.interpolation # None /\ kw.interpolation \in valid_inputs
            THEN kw.interpolation
            ELSE "latest"
    IN  IF kw.verbose \notin {None, "True", "False"}
        THEN Raise("TypeError", m)
        ELSE [status |-> "ok", m |-> m,
              obj |-> [control |-> control, times |-> times,
                       number_controls |-> number_controls,
                       interpolation |-> interpolation,
                       verbose |-> (kw.verbose = "True")]]

\* More than one argument: components, then the time array.
InitTrailing(m, args, kw) ==
    LET t_arr == args[Len(args)] IN
    IF t_arr.kind # "ndarray"
    THEN Raise("TypeError", m)
    ELSE LET times == Column(Flatten(Get(m, t_arr.a)))
             built == Assemble(m, args, 0, times, times)
         IN  IF built.status # "ok"
             THEN Raise(built.status, m)
             ELSE LET number_controls == Len(built.ARR[1]) - 1
                      tid == NewId(m)
                      m1  == Append(m, times)
                      aid == NewId(m1)
                      m2  == Append(m1, built.ARR)
                  IN  IF ~TimeOrdered(Get(m2, Whole(tid, 1, 2)))
                      THEN Raise("ValueError", m)
                      ELSE Keywords(m2, kw, [arr |-> aid, off |-> 0,
                                             ncols |-> number_controls, ndim |-> 2],
                                    Whole(tid, 1, 2), number_controls)

\* InitMatrix counting the arguments instead of the columns: C12 tells it
\* from InitMatrix.
InitMatrix_ArgCount(m, args, kw) ==
    LET arg == args[1] IN
    IF arg.kind # "ndarray"
    THEN Raise("TypeError", m)
    ELSE IF arg.a.ndim < 2
    THEN Raise("IndexError", m)
    ELSE LET number_controls == Len(args) - 1
             times == [arr |-> arg.a.arr, off |-> arg.a.off + arg.a.ncols - 1,
                       ncols |-> 1, ndim |-> 2]
             control == [arr |-> arg.a.arr, off |-> arg.a.off,
                         ncols |-> number_controls, ndim |-> 2]
         IN  IF ~TimeOrdered(Get(m, times))
             THEN Raise("ValueError", m)
             ELSE Keywords(m, kw, control, times, number_controls)

\* One argument: the array ARR with the time vector as its last column.
InitMatrix(m, args, kw) ==
    LET arg == args[1] IN
    IF arg.kind # "ndarray"
    THEN Raise("TypeError", m)
    ELSE IF arg.a.ndim < 2
    THEN Raise("IndexError", m)
    ELSE LET number_controls == arg.a.ncols - 1
             times == [arr |-> arg.a.arr, off |-> arg.a.off + number_controls,
                       ncols |-> 1, ndim |-> 2]
             control == [arr |-> arg.a.arr, off |-> arg.a.off,
                         ncols |-> number_controls, ndim |-> 2]
         IN  IF ~TimeOrdered(Get(m, times))
             THEN Raise("ValueError", m)
             ELSE Keywords(m, kw, control, times, number_controls)

\* control( *args, **keyword_args ): the status, the memory and the instance.
control_init(m, args, kw) ==
    IF Len(args) > 1 THEN InitTrailing(m, args, kw) ELSE InitMatrix(m, args, kw)

-----------------------------------------------------------------------------
(* control: timemin, timemax, copy, arc_length, inverse *)

\* The sample times of self as a flat sequence, and its component rows.
TimesOf(m, self) == Flatten(Get(m, self.times))

ControlOf(m, self) == Get(m, self.control)

Elements(s) == {s[i] : i \in 1..Len(s)}

timemin(m, self) == SetMin(Elements(TimesOf(m, self)))

\* timemax returning the smallest sample time: C2 tells it from timemax.
timemax_Min(m, self) == SetMin(Elements(TimesOf(m, self)))

timemax(m, self) == SetMax(Elements(TimesOf(m, self)))

\* ndarray.copy(): a new array with the contents of the view a.
ArrayCopy(m, a) ==
    [m |-> Append(m, Get(m, a)), a |-> Whole(NewId(m), a.ncols, a.ndim)]

\* copy handing back self itself: C11 tells it from copy.
copy_Alias(m, self) == [status |-> "ok", m |-> m, obj |-> self]

copy(m, self) ==
    LET ctrl  == ArrayCopy(m, self.control)
        times == ArrayCopy(ctrl.m, self.times)
        c     == control_init(times.m, <<ArrayArg(ctrl.a), ArrayArg(times.a)>>, NoKw)
    IN  IF c.status # "ok"
        THEN c
        ELSE [c EXCEPT !.obj.interpolation = self.interpolation,
                       !.obj.verbose = self.verbose]

\* The array left as it is: C8 tells it from Negated.
Negated_Identity(A) == A

Negated(A) == [i \in 1..Len(A) |-> [j \in 1..Len(A[i]) |-> Neg(A[i][j])]]

inverse(m, self) ==
    LET c == copy(m, self) IN
    IF c.status # "ok"
    THEN c
    ELSE LET control == Negated(FlipUD(ControlOf(c.m, c.obj)))
             m1      == Append(c.m, control)
             cid     == NewId(c.m)
             flipped == FlipUD(Get(c.m, c.obj.times))
             top     == timemax(c.m, c.obj)
             times   == [i \in 1..Len(flipped) |-> <<top - flipped[i][1]>>]
             m2      == Append(m1, times)
             tid     == NewId(m1)
         IN  [status |-> "ok", m |-> m2,
              obj |-> [c.obj EXCEPT !.control = Whole(cid, c.obj.control.ncols, 2),
                                    !.times = Whole(tid, 1, 2)]]

\* The Euclidean norm of a row is q * sqrt(r) with r squarefree: SqPart is q
\* and Radicand is r, for the sum of squares s > 0.
SumSq(row) == SeqSum([j \in 1..Len(row) |-> Num(row[j]) * Num(row[j])])

SqPart(s) == SetMax({q \in 1..s : (s % (q * q)) = 0})

Radicand(s) == LET q == SqPart(s) IN s \div (q * q)

norm(row) ==
    LET s == SumSq(row) IN
    IF s = 0
    THEN [q |-> 0, r |-> 1]
    ELSE [q |-> SqPart(s), r |-> Radicand(s)]

\* arc_length weighting every step by the norm at its later sample: C3 tells
\* it from arc_length.
arc_length_Later(m, self) ==
    LET times   == TimesOf(m, self)
        control == ControlOf(m, self)
        steps   == 1..(Len(times) - 1)
        dL      == [timestep \in steps |->
                       LET n == norm(control[timestep + 1]) IN
                       [r |-> n.r, c |-> n.q * (times[timestep + 1] - times[timestep])]]
        total(r) ==
            SeqSum([timestep \in steps |->
                       IF dL[timestep].r = r THEN dL[timestep].c ELSE 0])
        rads    == {r \in {dL[timestep].r : timestep \in steps} : total(r) # 0}
    IN  [r \in rads |-> total(r)]

\* The length is the sum over r of coef[r] * sqrt(r): square roots of distinct
\* squarefree numbers are linearly independent, so two lengths are equal
\* exactly when they are the same function.
arc_length(m, self) ==
    LET times   == TimesOf(m, self)
        control == ControlOf(m, self)
        steps   == 1..(Len(times) - 1)
        dL      == [timestep \in steps |->
                       LET n == norm(control[timestep]) IN
                       [r |-> n.r, c |-> n.q * (times[timestep + 1] - times[timestep])]]
        total(r) ==
            SeqSum([timestep \in steps |->
                       IF dL[timestep].r = r THEN dL[timestep].c ELSE 0])
        rads    == {r \in {dL[timestep].r : timestep \in steps} : total(r) # 0}
    IN  [r \in rads |-> total(r)]

-----------------------------------------------------------------------------
(* control.interpolate *)

\* A number carries the type Python gives it: timemin() and timemax() return
\* a Python float, max() and min() over an array return a numpy scalar.
PyFloat(v) == [v |-> v, np |-> FALSE]

NumpyScalar(v) == [v |-> v, np |-> TRUE]

\* item == x inside list.index: item is a row of times.tolist(), a list of
\* one number.  A numpy scalar compares elementwise with the list; a Python
\* float is never equal to a list.
ItemEq(item, x) == x.np /\ item = <<x.v>>

\* list.index(x): the first position (from 0) holding x, or -1 for the
\* ValueError raised when no item equals x.
ListIndex(list, x) ==
    LET hits == {i \in 1..Len(list) : ItemEq(list[i], x)} IN
    IF hits = {} THEN -1 ELSE SetMin(hits) - 1

\* self.times[ self.times - time < 0 ] and self.times[ self.times - time > 0 ],
\* for the sample times as a flat sequence.
Earlier(times, time) == {t \in Elements(times) : t - time < 0}

Later(times, time) == {t \in Elements(times) : t - time > 0}

\* t_low taking the earliest of the earlier samples: C4 tells it from t_low.
t_low_Min(times, time) ==
    LET earlier == Earlier(times, time) IN
    IF earlier # {}
    THEN NumpyScalar(SetMin(earlier))
    ELSE PyFloat(SetMin(Elements(times)))

\* max() of the earlier samples, or self.timemin() when max() raises
\* ValueError on an empty selection.
t_low(times, time) ==
    LET earlier == Earlier(times, time) IN
    IF earlier # {}
    THEN NumpyScalar(SetMax(earlier))
    ELSE PyFloat(SetMin(Elements(times)))

\* min() of the later samples, or self.timemax().
t_high(times, time) ==
    LET later == Later(times, time) IN
    IF later # {}
    THEN NumpyScalar(SetMin(later))
    ELSE PyFloat(SetMax(Elements(times)))

\* interp weighting the two points the wrong way round: C6 tells it from interp.
interp_Swapped(x, xp, fp) ==
    IF x >= xp[2] THEN Frac(Num(fp[2]), 1)
    ELSE IF x <= xp[1] THEN Frac(Num(fp[1]), 1)
    ELSE Frac(Num(fp[2]) * (xp[2] - xp[1]) + (Num(fp[1]) - Num(fp[2])) * (x - xp[1]),
              xp[2] - xp[1])

\* numpy.interp( x, xp, fp ) on two points.
interp(x, xp, fp) ==
    IF x >= xp[2] THEN Frac(Num(fp[2]), 1)
    ELSE IF x <= xp[1] THEN Frac(Num(fp[1]), 1)
    ELSE Frac(Num(fp[1]) * (xp[2] - xp[1]) + (Num(fp[2]) - Num(fp[1])) * (x - xp[1]),
              xp[2] - xp[1])

\* A row of the control array as a vector of fractions: the numbers its
\* entries stand for.
Vector(row) == [j \in 1..Len(row) |-> Frac(Num(row[j]), 1)]

NoValue == <<>>

Failed(error) == [status |-> error, value |-> NoValue]

Returned(value) == [status |-> "ok", value |-> value]

interpolate(m, self, time, interpolation) ==
    LET policy  == IF interpolation = None THEN self.interpolation ELSE interpolation
        times   == TimesOf(m, self)
        control == ControlOf(m, self)
        tl      == t_low(times, time)
        th      == t_high(times, time)
        index_low  == ListIndex(Column(times), tl)
        index_high == ListIndex(Column(times), th)
    IN  IF time < timemin(m, self) \/ time > timemax(m, self)
        THEN Failed("ValueError")
        ELSE IF index_low < 0 \/ index_high < 0
        THEN Failed("ValueError")
        ELSE IF policy = "latest"
        THEN Returned(Vector(control[index_low + 1]))
        ELSE IF policy = "nearest"
        THEN IF (time - tl.v) <= (th.v - time)
             THEN Returned(Vector(control[index_low + 1]))
             ELSE Returned(Vector(control[index_high + 1]))
        ELSE IF policy = "linear"
        THEN Returned([index \in 1..self.number_controls |->
                          interp(time, <<tl.v, th.v>>,
                                 <<control[index_low + 1][index],
                                   control[index_high + 1][index]>>)])
        ELSE Failed("ValueError")

-----------------------------------------------------------------------------
(* error_models.detuning *)

\* default_parameters() is [0.1]: one tenth.
DefaultDelta == 1

\* error_parameters is None, a list [delta] or a bare number delta.
NoParameters == [kind |-> "None", v |-> 0]

ListParameters(v) == [kind |-> "list", v |-> v]

NumberParameters(v) == [kind |-> "number", v |-> v]

\* arr[:, column] = delta, written through the view a into its array.
SetColumn(m, a, column, delta) ==
    [m EXCEPT ![a.arr] =
        [i \in 1..Len(m[a.arr]) |->
            [m[a.arr][i] EXCEPT ![a.off + column + 1] = delta]]]

\* arr[row, column] = v, written through the view a into its array.
SetItem(m, a, row, column, v) ==
    [m EXCEPT ![a.arr][row + 1][a.off + column + 1] = v]

call(m, ctrl, error_parameters) ==
    LET delta == IF error_parameters.kind = "None"
                 THEN DefaultDelta
                 ELSE error_parameters.v
        arr   == ctrl.control
    IN  IF arr.ncols < 3
        THEN Raise("IndexError", m)
        ELSE control_init(SetColumn(m, arr, 2, delta),
                          <<ArrayArg(arr), ArrayArg(ctrl.times)>>, NoKw)

-----------------------------------------------------------------------------
(* control.save and load *)

\* The decimal digits of n >= 0, and s filled with zeros to the length len.
RECURSIVE Digits(_)
Digits(n) == IF n < 10 THEN <<n>> ELSE Append(Digits(n \div 10), n % 10)

Padded(s, len) == [i \in 1..len |-> IF i <= Len(s) THEN s[i] ELSE 0]

RECURSIVE Pow10(_)
Pow10(e) == IF e = 0 THEN 1 ELSE 10 * Pow10(e - 1)

\* '%.12e' % v: the sign, one digit before the point and twelve after it,
\* and the exponent.  Counting the amplitudes in tenths moves their
\* exponent by one and leaves the digits as they are.
Formatted(v) ==
    [neg |-> v < 0,
     digits |-> Padded(Digits(Abs(Num(v))), 13),
     exp |-> Len(Digits(Abs(Num(v)))) - 1]

\* float( text ): the digits before the point of the value; the digits
\* after it are 0 for the numbers written here.
Parsed(text) ==
    LET whole == SeqSum([i \in 1..(text.exp + 1) |->
                            text.digits[i] * Pow10(text.exp + 1 - i)])
    IN  IF text.neg THEN Neg(whole) ELSE whole

\* A line of a text file: a comment, or the fields between the delimiters.
CommentLine == [comment |-> TRUE, fields |-> <<>>]

DataLine(row) == [comment |-> FALSE, fields |-> [j \in 1..Len(row) |-> Formatted(row[j])]]

\* numpy.savetxt( f, ARR, FORMAT, DELIMITER ), the twelve lines of HEADER
\* written before it.
CsvFile(ARR) ==
    [format |-> "csv", ndim |-> 0, rows |-> <<>>,
     lines |-> [i \in 1..12 |-> CommentLine] \o [i \in 1..Len(ARR) |-> DataLine(ARR[i])]]

\* numpy.save( f, ARR ) and numpy.savez( f, ARR ): the array as it is, in
\* the archive under the key arr_0.
NpyFile(format, ARR) == [format |-> format, ndim |-> 2, rows |-> ARR, lines |-> <<>>]

\* numpy.squeeze: the axes of length one are dropped.
Squeezed(rows) ==
    IF Len(rows) = 1 /\ Len(rows[1]) = 1 THEN [ndim |-> 0, rows |-> rows]
    ELSE IF Len(rows) = 1 THEN [ndim |-> 1, rows |-> Column(rows[1])]
    ELSE IF Len(rows[1]) = 1 THEN [ndim |-> 1, rows |-> rows]
    ELSE [ndim |-> 2, rows |-> rows]

\* numpy.loadtxt( f, delimiter ): the comment lines are skipped, the fields
\* are converted and the array is squeezed.
LoadTxt(file) ==
    LET data == SelectSeq(file.lines, LAMBDA line : ~line.comment)
    IN  Squeezed([i \in 1..Len(data) |->
                     [j \in 1..Len(data[i].fields) |-> Parsed(data[i].fields[j])]])

Formats == {"csv", "npy", "npz"}

\* self.save( filename, format ): the status and the files afterwards.
save(m, self, fs, format) ==
    LET ARR == HStack(ControlOf(m, self), Get(m, self.times))
        written(file) == [x \in (DOMAIN fs) \cup {format} |->
                             IF x = format THEN file ELSE fs[x]]
    IN  IF format = "csv" THEN [status |-> "ok", files |-> written(CsvFile(ARR))]
        ELSE IF format \in {"npy", "npz"}
        THEN [status |-> "ok", files |-> written(NpyFile(format, ARR))]
        ELSE [status |-> "ValueError", files |-> fs]

\* What depends on the numpy the code runs on, for a file written in the
\* format written and read in the format fmt: the error numpy.load raises
\* for a text file, which is neither an array file nor an archive, and the
\* error of arr['arr_0'] on an array, which has no fields.  None where
\* numpy raises nothing of the kind.
NumpyRaises(written, fmt) ==
    IF fmt \in {"npy", "npz"} /\ written = "csv" THEN {"IOError", "ValueError"}
    ELSE IF fmt = "npz" /\ written = "npy" THEN {"ValueError", "IndexError"}
    ELSE {None}

\* load( filename, format ) of the file with the extension ext; format None
\* stands for the extension.  A format that is not the one the file was
\* written in makes numpy.loadtxt fail on text that is no number,
\* numpy.load fail on text, control() fail on an archive and the lookup of
\* 'arr_0' fail on an array.
load(m, fs, ext, format, raised) ==
    LET fmt  == IF format = None THEN ext ELSE format
        file == fs[ext]
        built(ARR) ==
            control_init(Append(m, ARR.rows),
                         <<ArrayArg(Whole(NewId(m), Len(ARR.rows[1]), ARR.ndim))>>, NoKw)
    IN  IF fmt = "csv"
        THEN IF file.format = "csv" THEN built(LoadTxt(file)) ELSE Raise("ValueError", m)
        ELSE IF fmt = "npy"
        THEN IF file.format = "npy" THEN built([ndim |-> file.ndim, rows |-> file.rows])
             ELSE IF file.format = "npz" THEN control_init(m, <<ObjectArg>>, NoKw)
             ELSE Raise(raised, m)
        ELSE IF fmt = "npz"
        THEN IF file.format = "npz" THEN built([ndim |-> file.ndim, rows |-> file.rows])
             ELSE Raise(raised, m)
        ELSE Raise("ValueError", m)

-----------------------------------------------------------------------------
(* The state: two names bound to control instances, and the arrays alive *)

\* What a caller can read from an instance.
Snap(m, o) ==
    [times |-> TimesOf(m, o), control |-> ControlOf(m, o),
     number_controls |-> o.number_controls,
     interpolation |-> o.interpolation, verbose |-> o.verbose]

NoSnap ==
    [times |-> <<>>, control |-> <<>>, number_controls |-> 0,
     interpolation |-> None, verbose |-> FALSE]

\* The arrays the instances refer to, in a fixed order of the names.
RefSeq(os) ==
    (IF "w" \in DOMAIN os THEN <<os["w"].times.arr, os["w"].control.arr>> ELSE <<>>)
    \o (IF "r" \in DOMAIN os THEN <<os["r"].times.arr, os["r"].control.arr>> ELSE <<>>)

NewName(refs, id) ==
    Cardinality({refs[j] : j \in 1..SetMin({i \in 1..Len(refs) : refs[i] = id})})

\* Reference counting: an array nobody refers to is freed.  The arrays left
\* are renumbered in the order of RefSeq.
Collect(m, os) ==
    LET refs   == RefSeq(os)
        ids    == Elements(refs)
        old(n) == CHOOSE id \in ids : NewName(refs, id) = n
    IN  [mem  |-> [n \in 1..Cardinality(ids) |-> m[old(n)]],
         objs |-> [x \in DOMAIN os |->
                      [os[x] EXCEPT !.times.arr = NewName(refs, os[x].times.arr),
                                    !.control.arr = NewName(refs, os[x].control.arr)]]]

\* Binding the name "r" to a returned instance; "w" stays bound.
Bind(os, obj) ==
    [x \in (DOMAIN os) \cup {"r"} |-> IF x = "r" THEN obj ELSE os[x]]

-----------------------------------------------------------------------------
(* What the caller hands to the constructor *)

RawArray(ndim, rows) == [kind |-> "ndarray", ndim |-> ndim, rows |-> rows, f |-> None]

RawFunction(f) == [kind |-> "function", ndim |-> 0, rows |-> <<>>, f |-> f]

RawObject == [kind |-> "object", ndim |-> 0, rows |-> <<>>, f |-> None]

\* The caller's arrays are created in memory before the call.
RECURSIVE Materialise(_, _)
Materialise(m, raws) ==
    IF raws = <<>>
    THEN [m |-> m, args |-> <<>>]
    ELSE LET raw == Head(raws)
             m1  == IF raw.kind = "ndarray" THEN Append(m, raw.rows) ELSE m
             arg == IF raw.kind = "ndarray"
                    THEN ArrayArg(Whole(NewId(m), Len(raw.rows[1]), raw.ndim))
                    ELSE IF raw.kind = "function" THEN FunctionArg(raw.f)
                    ELSE ObjectArg
             rest == Materialise(m1, Tail(raws))
         IN  [m |-> rest.m, args |-> <<arg>> \o rest.args]

\* Even times with unequal gaps, so that a gap has queries off its midpoint.
TimeValues == {i * (i + 1) : i \in 0..MaxT}

\* One-dimensional time arrays: the strictly increasing ones and, for the
\* sanity check, each of them reversed (an inversion) and each with its first
\* sample repeated (a duplicate).
Increasing ==
    UNION {{t \in [1..n -> TimeValues] : \A i \in 1..(n - 1) : t[i] < t[i + 1]} :
              n \in 1..MaxN}

Reversed(t) == [i \in 1..Len(t) |-> t[Len(t) + 1 - i]]

Repeated(t) == [i \in 1..Len(t) |-> IF i = 2 THEN t[1] ELSE t[i]]

TimeVectors ==
    Increasing \cup {Reversed(t) : t \in Increasing} \cup {Repeated(t) : t \in Increasing}

\* A one-dimensional array counting down to 0: len-1, ..., 1, 0.
Countdown(len) == [i \in 1..len |-> len - i]

\* The component arguments tried with a time vector of n samples: a
\* function, an array of n values, an array of n+1 values, a non-array.
ComponentInputs(n) ==
    {RawFunction("ramp"), RawArray(1, Column(Countdown(n))),
     RawArray(1, Column(Countdown(n + 1))), RawObject}

ComponentLists(n) == UNION {[1..k -> ComponentInputs(n)] : k \in 1..MaxK}

\* The (n, k+1) array a caller assembles from components and a time vector.
RECURSIVE Assembled(_, _)
Assembled(comps, t) ==
    IF comps = <<>>
    THEN Column(t)
    ELSE HStack(IF Head(comps).kind = "function"
                THEN Sampled(Head(comps).f, Column(t))
                ELSE Head(comps).rows,
                Assembled(Tail(comps), t))

Fits(comps, t) ==
    \A i \in 1..Len(comps) :
        \/ comps[i].kind = "function"
        \/ comps[i].kind = "ndarray" /\ Len(comps[i].rows) = Len(t)

\* The positional arguments of a call: the trailing-time form, and the
\* single-argument form with a matrix, a one-dimensional array or a non-array.
TrailingCalls ==
    UNION {{comps \o <<RawArray(1, Column(t))>> : comps \in ComponentLists(Len(t))} :
              t \in TimeVectors}
    \cup {comps \o <<RawObject>> : comps \in ComponentLists(1)}

\* The matrices handed over have the columns countdown, ramp, countdown, ...
\* followed by the time column.
MatrixColumns(n, k) ==
    [j \in 1..k |-> IF j % 2 = 1 THEN RawArray(1, Column(Countdown(n)))
                    ELSE RawFunction("ramp")]

MatrixCalls ==
    {<<RawArray(2, Assembled(MatrixColumns(Len(t), k), t))>> :
        t \in TimeVectors, k \in 1..MaxK}
    \cup {<<RawArray(1, Column(t))>> : t \in TimeVectors}
    \cup {<<RawObject>>, <<RawFunction("ramp")>>}

\* The call copy() makes: the (n, k) array of values, then the time vector.
ValuesMatrix(t, k) ==
    LET ARR == Assembled(MatrixColumns(Len(t), k), t)
    IN  [i \in 1..Len(t) |-> [j \in 1..k |-> ARR[i][j]]]

ValuesMatrixCalls ==
    {<<RawArray(2, ValuesMatrix(t, k)), RawArray(1, Column(t))>> :
        t \in Increasing, k \in 2..MaxK}

\* The trailing-time form with the times handed over as a two-dimensional
\* array of one row, shape (1, n): the constructor flattens the time
\* argument whatever its shape.  The components are a function, an array of
\* n values, an array of n+1 values and an (n, k) array of values.
RowTimeCalls ==
    UNION {{<<c, RawArray(2, <<t>>)>> :
               c \in {RawFunction("ramp"), RawArray(1, Column(Countdown(Len(t)))),
                      RawArray(1, Column(Countdown(Len(t) + 1)))}
                     \cup {RawArray(2, ValuesMatrix(t, k)) : k \in 2..MaxK}} :
              t \in {v \in TimeVectors : Len(v) >= 2}}

\* The keywords are parsed after the positional arguments and independently
\* of them: they are tried with one list of components.
KeywordInputs ==
    {[NoKw EXCEPT !.interpolation = i] : i \in {"linear", "cubic"}}
    \cup {[NoKw EXCEPT !.verbose = v] : v \in {"True", "yes"}}

Calls ==
    {[args |-> a, kw |-> NoKw] :
        a \in TrailingCalls \cup MatrixCalls \cup ValuesMatrixCalls \cup RowTimeCalls}
    \cup {[args |-> <<RawFunction("ramp"), RawArray(1, Column(Countdown(Len(t)))),
                      RawArray(1, Column(t))>>, kw |-> kw] :
             t \in Increasing, kw \in KeywordInputs}

NoCall == [args |-> <<>>, kw |-> NoKw]

NoLast ==
    [op |-> None, self |-> None, status |-> None, call |-> NoCall,
     time |-> 0, policy |-> None, parameters |-> NoParameters,
     pre |-> NoSnap, pre2 |-> NoSnap, value |-> NoValue, length |-> <<>>,
     target |-> None, format |-> None, ext |-> None]

-----------------------------------------------------------------------------
(* The calls *)

Init ==
    /\ mem = <<>>
    /\ objs = <<>>
    /\ last = NoLast
    /\ files = <<>>

\* interpolate and arc_length change nothing but last.  They are taken as
\* the final call of a behaviour: every state that is reachable without
\* this guard is reachable with it.
Queries == {"interpolate", "arc_length"}

\* A write by the caller is followed by interpolate only, and save by load
\* only; nothing follows load.  This bounds the behaviours explored.
Closing == Queries \cup {"write", "save", "load"}

\* w = control( *args, **kw ), the first call of a behaviour.  One instance
\* is built from raw input per behaviour: instances share no state, and a
\* failed call leaves none behind.
Build(c) ==
    /\ last.op = None
    /\ LET given == Materialise(mem, c.args)
           made  == control_init(given.m, given.args, c.kw)
           kept  == Collect(made.m, IF made.status = "ok"
                                    THEN [x \in {"w"} |-> made.obj]
                                    ELSE <<>>)
       IN  /\ mem' = kept.mem
           /\ objs' = kept.objs
           /\ last' = [NoLast EXCEPT !.op = "control", !.status = made.status,
                                     !.call = c]
           /\ UNCHANGED files

\* The record of a call on the instance named self.
Called(op, self, status) ==
    [NoLast EXCEPT !.op = op, !.self = self, !.status = status]

\* The instance a call returned is bound to "r".
Return(made) ==
    LET kept == Collect(made.m, IF made.status = "ok" THEN Bind(objs, made.obj) ELSE objs)
    IN  /\ mem' = kept.mem
        /\ objs' = kept.objs
        /\ UNCHANGED files

\* r = w.copy()
Copy(self) ==
    /\ self \in DOMAIN objs
    /\ last.op \notin Closing
    /\ LET made == copy(mem, objs[self]) IN
       /\ Return(made)
       /\ last' = [Called("copy", self, made.status) EXCEPT
                      !.pre = Snap(mem, objs[self])]

\* r = w.inverse(), and r = r.inverse() on the instance that w.inverse()
\* has just returned: w.inverse().inverse().
Inverse(self) ==
    /\ self \in DOMAIN objs
    /\ last.op \notin Closing
    /\ self = "r" => last.op = "inverse" /\ last.self = "w"
    /\ LET made == inverse(mem, objs[self]) IN
       /\ Return(made)
       /\ last' = [Called("inverse", self, made.status) EXCEPT
                      !.pre = Snap(mem, objs[self]),
                      !.pre2 = IF self = "r" THEN last.pre ELSE NoSnap]

\* r = detuning.call( w, error_parameters )
Detuning(self, error_parameters) ==
    /\ self \in DOMAIN objs
    /\ last.op \notin Closing
    /\ LET made == call(mem, objs[self], error_parameters) IN
       /\ Return(made)
       /\ last' = [Called("call", self, made.status) EXCEPT
                      !.pre = Snap(mem, objs[self]),
                      !.parameters = error_parameters]

\* self.arc_length()
ArcLength(self) ==
    /\ self \in DOMAIN objs
    /\ last.op \notin Closing
    /\ last' = [Called("arc_length", self, "ok") EXCEPT
                   !.length = arc_length(mem, objs[self])]
    /\ UNCHANGED <<mem, objs, files>>

\* self.interpolate( time, interpolation ), on the waveform as built, as
\* detuning left it or as the caller's write left it: copy and inverse read
\* self and leave it as it was (C8, C11).
Interpolate(self, time, interpolation) ==
    /\ self \in DOMAIN objs
    /\ last.op \notin Queries \cup {"save", "load", "copy", "inverse"}
    /\ last.op = "write" =>
          (last.target = "interpolation" /\ last.self = self /\ interpolation = None)
    /\ LET got == interpolate(mem, objs[self], time, interpolation) IN
       last' = [Called("interpolate", self, got.status) EXCEPT
                   !.time = time, !.policy = interpolation, !.value = got.value]
    /\ UNCHANGED <<mem, objs, files>>

\* The caller writes through an instance it holds, after r = w.copy():
\* self.control[0, 0] = v, self.times[0, 0] = v or self.interpolation = p.
Write(self, target, v, p) ==
    /\ last.op = "copy"
    /\ last.status = "ok"
    /\ self \in DOMAIN objs
    /\ target = "control" => objs[self].number_controls >= 1
    /\ mem' = IF target = "control" THEN SetItem(mem, objs[self].control, 0, 0, v)
              ELSE IF target = "times" THEN SetItem(mem, objs[self].times, 0, 0, v)
              ELSE mem
    /\ objs' = IF target = "interpolation"
               THEN [objs EXCEPT ![self].interpolation = p]
               ELSE objs
    /\ last' = [Called("write", self, "ok") EXCEPT
                   !.target = target,
                   !.pre = Snap(mem, objs["w"]),
                   !.pre2 = Snap(mem, objs["r"])]
    /\ UNCHANGED files

\* self.save( 'f', format )
Save(self, format) ==
    /\ self \in DOMAIN objs
    /\ last.op \notin Closing
    /\ LET saved == save(mem, objs[self], files, format) IN
       /\ files' = saved.files
       /\ last' = [Called("save", self, saved.status) EXCEPT
                      !.format = format, !.ext = format,
                      !.pre = Snap(mem, objs[self])]
    /\ UNCHANGED <<mem, objs>>

\* r = load( 'f.' + extension, format ) of the file save has just written.
Load(format, raised) ==
    /\ last.op = "save"
    /\ last.status = "ok"
    /\ LET made == load(mem, files, last.ext, format, raised) IN
       /\ Return(made)
       /\ last' = [Called("load", "r", made.status) EXCEPT
                      !.format = IF format = None THEN last.ext ELSE format,
                      !.ext = last.ext,
                      !.pre = last.pre]

Names == {"w", "r"}

SaveFormats == Formats \cup {"txt"}

LoadFormats == {None, "txt"} \cup Formats

WriteTargets == {"control", "times", "interpolation"}

\* Query times: every grid point of the sampled range and one beyond each end.
QueryTimes == (-1)..(MaxT * (MaxT + 1) + 1)

PolicyInputs == {None, "latest", "nearest", "linear", "cubic"}

ParameterInputs == {NoParameters, ListParameters(2), NumberParameters(2)}

\* The guards that do not depend on the arguments are tested before the
\* arguments are chosen.
Next ==
    \/ last.op = None /\ \E c \in Calls : Build(c)
    \/ Copy("w")
    \/ \E self \in Names : Inverse(self)
    \/ last.op \notin Closing /\ \E ep \in ParameterInputs : Detuning("w", ep)
    \/ \E self \in Names, target \in WriteTargets : Write(self, target, -9, "cubic")
    \/ \E self \in Names, format \in SaveFormats : Save(self, format)
    \/ last.op = "save" /\ last.status = "ok" /\
          \E format \in LoadFormats :
             \E raised \in NumpyRaises(last.ext, IF format = None THEN last.ext ELSE format) :
                Load(format, raised)
    \/ \E self \in Names : ArcLength(self)
    \/ last.op \notin Queries \cup {"save", "load", "copy", "inverse"} /\
          \E time \in QueryTimes, policy \in PolicyInputs : Interpolate("w", time, policy)

Spec == Init /\ [][Next]_vars

-----------------------------------------------------------------------------
(* Vocabulary of the properties *)

StrictlyIncreasing(t) == \A i \in 1..(Len(t) - 1) : t[i] < t[i + 1]

Built == "w" \in DOMAIN objs

WTimes == TimesOf(mem, objs["w"])

WValues == ControlOf(mem, objs["w"])

RTimes == TimesOf(mem, objs["r"])

RValues == ControlOf(mem, objs["r"])

\* The policy an interpolate call runs under.
Effective == IF last.policy = None THEN objs["w"].interpolation ELSE last.policy

\* An interpolate call on a waveform whose sample times are strictly increasing.
Interpolated(policy) ==
    /\ last.op = "interpolate"
    /\ StrictlyIncreasing(WTimes)
    /\ Effective = policy

\* The query time lies strictly between the samples i and i+1.
Between(i) == WTimes[i] < last.time /\ last.time < WTimes[i + 1]

Segments == 1..(Len(WTimes) - 1)

-----------------------------------------------------------------------------
(* C1: for a waveform built from a strictly increasing time vector, for    *)
(* every sample index i and each of the policies latest, nearest and       *)
(* linear, interpolate(w, t_i, policy) returns exactly v_i.                *)
C1_KnotReturnsSample ==
    \A policy \in valid_inputs :
        Interpolated(policy) =>
            \A i \in 1..Len(WTimes) :
                last.time = WTimes[i] =>
                    (last.status = "ok" /\ last.value = Vector(WValues[i]))

(* C2: inverse is an involution: inverse(inverse(w)) has the same sample   *)
(* times and the same values as the valid waveform w, also when the first  *)
(* sample time of w is not 0.                                              *)
InvertedTwice ==
    /\ last.op = "inverse"
    /\ last.self = "r"
    /\ StrictlyIncreasing(last.pre2.times)

C2_InverseInvolution ==
    InvertedTwice => (RTimes = last.pre2.times /\ RValues = last.pre2.control)

(* C2 as amended: inverse(inverse(w)) has the values of w at every index   *)
(* and the sample times of w moved to start at 0, t_i - t_min; it has the  *)
(* sample times of w when t_min = 0.                                       *)
C2_InverseTwiceShifted ==
    InvertedTwice =>
        /\ RValues = last.pre2.control
        /\ RTimes = [i \in 1..Len(last.pre2.times) |->
                        last.pre2.times[i] - last.pre2.times[1]]

C2_Witness ==
    /\ InvertedTwice
    /\ Len(last.pre2.times) >= 2
    /\ last.pre2.times[1] # 0
    /\ \E i \in 1..Len(RValues) : \E j \in 1..Len(RValues[i]) : RValues[i][j] # 0

(* C3: for every valid waveform w, arc_length(w) = arc_length(inverse(w)). *)
Inverted ==
    /\ last.op = "inverse"
    /\ last.self = "w"
    /\ StrictlyIncreasing(last.pre.times)

C3_ArcLengthOfInverse ==
    Inverted => arc_length(mem, objs["r"]) = arc_length(mem, objs["w"])

\* The sum over consecutive sample pairs of the norm of the value vector at
\* the later sample times the time difference of the pair.
LaterSampleLength(times, control) ==
    LET steps == 1..(Len(times) - 1)
        total(r) ==
            SeqSum([i \in steps |->
                       IF norm(control[i + 1]).r = r
                       THEN norm(control[i + 1]).q * (times[i + 1] - times[i])
                       ELSE 0])
    IN  [r \in {x \in {norm(control[i + 1]).r : i \in steps} : total(x) # 0} |-> total(r)]

(* C3 as amended: for every valid waveform w, arc_length(inverse(w)) is    *)
(* the sum over consecutive sample pairs of w of the norm of the value     *)
(* vector at the later sample times the time difference of the pair.       *)
C3_ArcLengthOfInverseLater ==
    Inverted =>
        arc_length(mem, objs["r"]) = LaterSampleLength(last.pre.times, last.pre.control)

C3_Witness ==
    /\ Inverted
    /\ Len(WTimes) >= 3
    /\ arc_length(mem, objs["r"]) # arc_length(mem, objs["w"])
    /\ arc_length(mem, objs["r"]) # <<>>

(* C4: with the latest policy, a query time strictly between the sample    *)
(* times t_i and t_{i+1} of a waveform with strictly increasing sample     *)
(* times returns v_i, never the value of a later sample.                   *)
C4_LatestHoldsEarlierSample ==
    Interpolated("latest") =>
        \A i \in Segments :
            Between(i) => (last.status = "ok" /\ last.value = Vector(WValues[i]))

C4_Witness ==
    /\ Interpolated("latest")
    /\ \E i \in Segments :
          /\ i >= 2
          /\ Between(i)
          /\ WValues[i] # WValues[i + 1]
          /\ WValues[i] # WValues[i - 1]
          /\ last.value = Vector(WValues[i])

(* C5: with the nearest policy, every query time inside [t_min, t_max]     *)
(* returns the value at whichever of t_low (largest sample time <= time)   *)
(* and t_high (smallest sample time >= time) is closer, and the value at   *)
(* t_low when the two are equally far.                                     *)
AtOrBefore == SetMax({i \in 1..Len(WTimes) : WTimes[i] <= last.time})

AtOrAfter == SetMin({i \in 1..Len(WTimes) : WTimes[i] >= last.time})

C5_NearestSample ==
    (/\ Interpolated("nearest")
     /\ WTimes[1] <= last.time
     /\ last.time <= WTimes[Len(WTimes)])
        => /\ last.status = "ok"
           /\ last.value =
                 IF last.time - WTimes[AtOrBefore] <= WTimes[AtOrAfter] - last.time
                 THEN Vector(WValues[AtOrBefore])
                 ELSE Vector(WValues[AtOrAfter])

(* C6: with the linear policy, for a query time strictly between the       *)
(* sample times t_i and t_{i+1}, each component c of the result equals     *)
(* v_i[c] + (v_{i+1}[c] - v_i[c]) * (time - t_i) / (t_{i+1} - t_i); it     *)
(* lies between v_i[c] and v_{i+1}[c] and is their mean at the midpoint.   *)
\* The fraction f equals num/den (den > 0).
Equals(f, num, den) == f[1] * den = num * f[2]

AtLeast(f, v) == f[1] >= v * f[2]

AtMost(f, v) == f[1] <= v * f[2]

C6_LinearAffine ==
    Interpolated("linear") =>
        \A i \in Segments :
            Between(i) =>
                /\ last.status = "ok"
                /\ Len(last.value) = Len(WValues[i])
                /\ \A c \in 1..Len(WValues[i]) :
                      LET lo == WValues[i][c]
                          hi == WValues[i + 1][c]
                          dt == WTimes[i + 1] - WTimes[i]
                      IN  /\ Equals(last.value[c],
                                    lo * dt + (hi - lo) * (last.time - WTimes[i]), dt)
                          /\ AtLeast(last.value[c], IF lo <= hi THEN lo ELSE hi)
                          /\ AtMost(last.value[c], IF lo <= hi THEN hi ELSE lo)
                          /\ (2 * last.time = WTimes[i] + WTimes[i + 1])
                                => Equals(last.value[c], lo + hi, 2)

C6_Witness ==
    /\ Interpolated("linear")
    /\ last.status = "ok"
    /\ Len(last.value) >= 2
    /\ \E i \in Segments :
          /\ Between(i)
          /\ 2 * last.time # WTimes[i] + WTimes[i + 1]
          /\ \A c \in 1..2 : WValues[i][c] # WValues[i + 1][c]
          /\ last.value[1][2] # 1

(* C7: for a waveform of n >= 2 samples and a recognized policy,           *)
(* interpolate fails with ValueError exactly when time < t_min or          *)
(* time > t_max; a query at exactly t_min or t_max is accepted and         *)
(* returns a vector of k components.                                       *)
C7_ValueErrorOnlyOutside ==
    \A policy \in valid_inputs :
        (Interpolated(policy) /\ Len(WTimes) >= 2) =>
            LET outside == last.time < WTimes[1] \/ last.time > WTimes[Len(WTimes)] IN
            /\ last.status = "ValueError" <=> outside
            /\ ~outside => (last.status = "ok" /\ Len(last.value) = Len(WValues[1]))

(* C8: for a valid waveform w of n samples, inverse(w) is a new waveform   *)
(* with the same n and k whose sample at index n-1-i has time t_max - t_i  *)
(* and value -v_i, whose sample times are strictly increasing, and w is    *)
(* left unchanged.                                                         *)
C8_InverseSamples ==
    Inverted =>
        LET n == Len(last.pre.times) IN
        /\ last.status = "ok"
        /\ Len(RTimes) = n
        /\ Len(RValues) = n
        /\ Snap(mem, objs["r"]).number_controls = last.pre.number_controls
        /\ \A i \in 1..n :
              /\ RTimes[n + 1 - i] = last.pre.times[n] - last.pre.times[i]
              /\ RValues[n + 1 - i] =
                    [c \in 1..Len(last.pre.control[i]) |-> Neg(last.pre.control[i][c])]
        /\ StrictlyIncreasing(RTimes)
        /\ Snap(mem, objs["w"]) = last.pre
        /\ objs["r"].times.arr \notin {objs["w"].times.arr, objs["w"].control.arr}
        /\ objs["r"].control.arr \notin {objs["w"].times.arr, objs["w"].control.arr}

C8_Witness ==
    /\ Inverted
    /\ Len(RTimes) >= 3
    /\ RTimes # last.pre.times
    /\ Len(RValues[1]) >= 2
    /\ RValues[1] # RValues[Len(RValues)]
    /\ RValues # last.pre.control

(* C9: building with a time vector that is not strictly increasing, or     *)
(* with an array component whose length differs from the length of the     *)
(* time vector, fails with ValueError and yields no waveform, in the       *)
(* combined-matrix form and in the trailing-time-argument form.            *)
CallArgs == last.call.args

TrailingForm ==
    /\ Len(CallArgs) >= 2
    /\ \A i \in 1..Len(CallArgs) : CallArgs[i].kind \in {"ndarray", "function"}
    /\ CallArgs[Len(CallArgs)].kind = "ndarray"

MatrixForm ==
    /\ Len(CallArgs) = 1
    /\ CallArgs[1].kind = "ndarray"
    /\ CallArgs[1].ndim = 2

\* The time vector handed over: the elements of the last argument, row by
\* row, or the last column of the single argument.
CallTimes ==
    LET rows == CallArgs[Len(CallArgs)].rows
    IN  IF Len(CallArgs) >= 2 THEN Flatten(rows)
        ELSE [i \in 1..Len(rows) |-> rows[i][Len(rows[i])]]

Mismatched ==
    /\ TrailingForm
    /\ \E i \in 1..(Len(CallArgs) - 1) :
          CallArgs[i].kind = "ndarray" /\ Len(CallArgs[i].rows) # Len(CallTimes)

C9_BuildRejectsBadInput ==
    (/\ last.op = "control"
     /\ TrailingForm \/ MatrixForm
     /\ ~StrictlyIncreasing(CallTimes) \/ Mismatched)
        => (last.status = "ValueError" /\ ~Built)

(* C10: in every reachable state every waveform that exists has strictly   *)
(* increasing sample times and a values table with as many rows as there   *)
(* are sample times, each row of the same length.                          *)
C10_WaveformInvariant ==
    \A x \in DOMAIN objs :
        LET times  == TimesOf(mem, objs[x])
            values == ControlOf(mem, objs[x])
        IN  /\ StrictlyIncreasing(times)
            /\ Len(values) = Len(times)
            /\ \A i \in 1..Len(values) : Len(values[i]) = Len(values[1])

(* C11: copy(w) returns a waveform with the sample times, values, policy   *)
(* and verbose flag of w that shares no storage with w: after a later      *)
(* overwrite of a value, a time or the policy of the copy or of the        *)
(* original, the other one's samples, values and policy are unchanged.     *)
ArraysOf(o) == {o.times.arr, o.control.arr}

C11_CopyIsIndependent ==
    /\ last.op = "copy" =>
          /\ last.status = "ok"
          /\ Snap(mem, objs["r"]) = last.pre
          /\ Snap(mem, objs["w"]) = last.pre
          /\ ArraysOf(objs["r"]) \cap ArraysOf(objs["w"]) = {}
    /\ (last.op = "write" /\ last.self = "w") => Snap(mem, objs["r"]) = last.pre2
    /\ (last.op = "write" /\ last.self = "r") => Snap(mem, objs["w"]) = last.pre

C11_Witness ==
    /\ last.op = "write"
    /\ last.self = "r"
    /\ last.target = "control"
    /\ last.pre2 = last.pre
    /\ Snap(mem, objs["r"]) # last.pre2
    /\ Len(last.pre.times) >= 2
    /\ last.pre.number_controls >= 2
    /\ last.pre.verbose

(* C12: for every successful construction, in every accepted form, the     *)
(* dimension k of the waveform, as len() reports it, equals the number of  *)
(* positional arguments minus one.                                         *)
Constructed == last.op = "control" /\ last.status = "ok"

C12_DimensionIsArgumentCount ==
    Constructed => objs["w"].number_controls = Len(CallArgs) - 1

\* The columns an argument brings to the array of the waveform: those of
\* an array, one for a function.
Columns(arg) == IF arg.kind = "ndarray" THEN Len(arg.rows[1]) ELSE 1

\* The arguments that are components: all but the last, the time argument,
\* which brings the one time column whatever its shape.
Components == 1..(Len(CallArgs) - 1)

\* The time argument is a two-dimensional array of more than one column.
WideTimes ==
    /\ Len(CallArgs) >= 2
    /\ CallArgs[Len(CallArgs)].ndim = 2
    /\ Len(CallArgs[Len(CallArgs)].rows[1]) >= 2

(* C12 as amended: for every successful construction the dimension k, as   *)
(* len() reports it, is the number of value columns handed over: in the    *)
(* trailing-time form the columns of the component arguments together,     *)
(* whatever the shape of the time argument, and in the single-array form   *)
(* the columns of the array minus one, the time column.  It is the number  *)
(* of arguments minus one only in the trailing-time form with components   *)
(* of one column each.                                                     *)
C12_DimensionIsColumnCount ==
    Constructed =>
        /\ Len(CallArgs) >= 2 =>
              objs["w"].number_controls =
                 SeqSum([i \in Components |-> Columns(CallArgs[i])])
        /\ Len(CallArgs) = 1 =>
              objs["w"].number_controls = Columns(CallArgs[1]) - 1
        /\ \A i \in 1..Len(WValues) : Len(WValues[i]) = objs["w"].number_controls
        /\ (Len(CallArgs) >= 2 /\ \A i \in Components : Columns(CallArgs[i]) = 1)
              => objs["w"].number_controls = Len(CallArgs) - 1

C12_Witness ==
    /\ Constructed
    /\ Len(CallArgs) = 2
    /\ Columns(CallArgs[1]) >= 3
    /\ WideTimes
    /\ Len(WTimes) = Len(CallArgs[2].rows[1])
    /\ objs["w"].number_controls = 3

(* C13: an unrecognized policy name given as the interpolation option at   *)
(* construction leaves the construction successful with the policy latest  *)
(* stored; given as the policy of an interpolate call with a time in       *)
(* range, or stored on the waveform and used by default, it makes that     *)
(* call fail with ValueError.                                              *)
Unrecognized(policy) == policy # None /\ policy \notin valid_inputs

C13_UnrecognizedPolicy ==
    /\ (/\ last.op = "control"
        /\ Unrecognized(last.call.kw.interpolation)
        /\ last.call.kw.verbose = None
        /\ TrailingForm \/ MatrixForm
        /\ ~Mismatched)
          => (last.status = "ok" /\ Built /\ objs["w"].interpolation = "latest")
    /\ (/\ last.op = "interpolate"
        /\ Unrecognized(Effective)
        /\ SetMin(Elements(WTimes)) <= last.time
        /\ last.time <= SetMax(Elements(WTimes)))
          => last.status = "ValueError"

C13_Witness ==
    /\ last.op = "interpolate"
    /\ last.policy = None
    /\ Unrecognized(objs["w"].interpolation)
    /\ StrictlyIncreasing(WTimes)
    /\ \E i \in Segments : Between(i)
    /\ last.status = "ValueError"

(* C14: malformed construction input always fails with TypeError and       *)
(* creates no waveform: a time argument or a component argument that is    *)
(* neither array-like nor callable, and a single combined argument that    *)
(* is array-like but one-dimensional, so that it has no time column.       *)
NoTimeArray == Len(CallArgs) >= 2 /\ CallArgs[Len(CallArgs)].kind # "ndarray"

\* A component that is neither an array nor a function, the arrays among
\* the components having the length of the time vector.
NoComponent ==
    /\ Len(CallArgs) >= 2
    /\ CallArgs[Len(CallArgs)].kind = "ndarray"
    /\ \E i \in 1..(Len(CallArgs) - 1) : CallArgs[i].kind = "object"
    /\ \A i \in 1..(Len(CallArgs) - 1) :
          CallArgs[i].kind = "ndarray" => Len(CallArgs[i].rows) = Len(CallTimes)

NoMatrix ==
    /\ Len(CallArgs) = 1
    /\ CallArgs[1].kind # "ndarray" \/ CallArgs[1].ndim < 2

C14_MalformedIsTypeError ==
    (last.op = "control" /\ (NoTimeArray \/ NoComponent \/ NoMatrix))
        => (last.status = "TypeError" /\ ~Built)

(* C15: for every valid waveform w and each of the formats csv, npy and    *)
(* npz, saving w and loading the file that save wrote yields a waveform    *)
(* with the same n and k, the same sample times and the same values as w.  *)
C15_SaveLoadRoundTrip ==
    (/\ last.op = "load"
     /\ last.format \in Formats
     /\ last.format = last.ext
     /\ StrictlyIncreasing(last.pre.times))
        => /\ last.status = "ok"
           /\ "r" \in DOMAIN objs
           /\ objs["r"].number_controls = last.pre.number_controls
           /\ RTimes = last.pre.times
           /\ RValues = last.pre.control

(* C16: building from the components c_1..c_k (arrays of length n or       *)
(* functions sampled at every time) followed by the time vector yields     *)
(* the same samples and values as building from the single (n, k+1)        *)
(* matrix whose columns are c_1..c_k in argument order followed by the     *)
(* time column.                                                            *)
TrailingBuilt == Constructed /\ Len(CallArgs) >= 2

\* The waveform built from the combined matrix of the arguments of the call.
FromMatrix ==
    LET ARR   == Assembled(SubSeq(CallArgs, 1, Len(CallArgs) - 1), CallTimes)
        given == Materialise(<<>>, <<RawArray(2, ARR)>>)
        made  == control_init(given.m, given.args, last.call.kw)
    IN  [status |-> made.status,
         snap |-> IF made.status = "ok" THEN Snap(made.m, made.obj) ELSE NoSnap]

C16_FormsAgree ==
    TrailingBuilt =>
        /\ FromMatrix.status = "ok"
        /\ FromMatrix.snap.times = WTimes
        /\ FromMatrix.snap.control = WValues
        /\ FromMatrix.snap.number_controls = objs["w"].number_controls

C16_Witness ==
    /\ TrailingBuilt
    /\ Len(CallArgs) >= 4
    /\ Len(WTimes) >= 3
    /\ CallArgs[1].kind = "function"
    /\ CallArgs[2].kind = "ndarray"
    /\ CallArgs[3].kind = "function"
    /\ \E i \in 1..Len(WValues) : WValues[i][1] # WValues[i][2]
    /\ FromMatrix.snap.control = WValues

(* C17: after call(ctrl, error_parameters) of the detuning error model on  *)
(* a waveform with k >= 3, ctrl still has the values and sample times it   *)
(* had before the call, and the returned waveform has the same sample      *)
(* times, component index 2 equal to delta at every sample and every       *)
(* other component equal to that of ctrl.                                  *)
Detuned == last.op = "call" /\ last.pre.number_controls >= 3

Delta == IF last.parameters.kind = "None" THEN DefaultDelta ELSE last.parameters.v

C17_DetuningOnSnapshot ==
    Detuned =>
        /\ last.status = "ok"
        /\ WTimes = last.pre.times
        /\ WValues = last.pre.control
        /\ RTimes = last.pre.times
        /\ \A i \in 1..Len(RValues) :
              RValues[i] = [last.pre.control[i] EXCEPT ![3] = Delta]

====
